---- MODULE Spec2Model ----
(***************************************************************************)
(* Wesleyan Birder API: the account and sighting handlers of app/main.py   *)
(* over the two tables of app/models.py, and the reply parsing of          *)
(* app/bird_identifier.py.                                                 *)
(*                                                                         *)
(* Three specifications share the variables:                               *)
(*   Spec          every handler of main.py as one atomic step             *)
(*   SpecConc      POST /auth/register split at its two database calls,    *)
(*                 several requests in flight                              *)
(*   SpecIdentify  POST /identify over every reply of the external model   *)
(***************************************************************************)
EXTENDS Integers, Sequences, FiniteSets, TLC

VARIABLES
    users,       \* the users table: rows [id, username, email, orcid_id]
    sightings,   \* the sightings table: rows [id, bird_name, scientific_name, user_id]
    lifeList,    \* history: what each account posted and has not deleted
    resp,        \* the answer to the last request (Spec)
    inflight,    \* the register requests being handled (SpecConc)
    upstream,    \* what the call to the external model comes to (SpecIdentify)
    identified   \* the answer of POST /identify (SpecIdentify)

vars == <<users, sightings, lifeList, resp, inflight, upstream, identified>>

(***************************************************************************)
(* Bounds and input domains                                                *)
(***************************************************************************)
\* largest primary key the sightings table hands out
MaxSightingId == 2
\* register requests that can be in flight together (SpecConc)
NumWorkers == 2
\* longest reply of the external model, in chunks (SpecIdentify)
MaxReplyLen == 4

None == "None"

Usernames == {"alice", "bob"}
Emails == {"a@wesleyan.edu", "b@wesleyan.edu", "c@wesleyan.edu"}
Orcids == {None, "0000-0002-1825-0097"}

\* valid SightingCreate bodies (bird_name required, scientific_name optional)
SightingInputs ==
    { [bird_name |-> "Northern Cardinal", scientific_name |-> "Cardinalis cardinalis"],
      [bird_name |-> "Pigeon", scientific_name |-> None] }

SightingIds == 1..MaxSightingId
Skips == 0..1
Limits == {1, MaxSightingId}
Workers == 1..NumWorkers

Range(s) == { s[i] : i \in DOMAIN s }

(***************************************************************************)
(* Tables (app/models.py)                                                  *)
(***************************************************************************)
\* users.id is an autoincrement key and no handler deletes an account
NextUserId == Cardinality(users) + 1

\* sightings.id: any key no stored row holds (rows are deleted, and whether a
\* freed key is handed out again depends on the database)
FreeSightingIds == { i \in SightingIds : \A s \in sightings : s.id # i }

\* unique=True on users.username and users.email: what makes commit() raise
\* IntegrityError for `row` being inserted or updated
UniqueViolation(row) ==
    \E u \in users : u.id # row.id /\ (u.username = row.username \/ u.email = row.email)

(***************************************************************************)
(* Queries of the handlers                                                 *)
(***************************************************************************)
\* fault: the email half of the filter left out
ExistingUserUsernameOnly(username, email) ==
    { u \in users : u.username = username }

\* register: filter((User.username == ...) | (User.email == ...))
ExistingUser(username, email) ==
    { u \in users : u.username = username \/ u.email = email }

\* fault: a listing that is not filtered by owner
SightingsOfAnyUser(user_id) == sightings

\* get_sightings: filter(Sighting.user_id == current_user.id)
SightingsOfUser(user_id) == { s \in sightings : s.user_id = user_id }

\* fault: a lookup by id alone
SightingByIdOnly(sighting_id, user_id) ==
    { s \in sightings : s.id = sighting_id }

\* get_sighting, delete_sighting: filter(Sighting.id == ..., Sighting.user_id == ...)
SightingByIdAndOwner(sighting_id, user_id) ==
    { s \in sightings : s.id = sighting_id /\ s.user_id = user_id }

\* the orders in which a query without ORDER BY can return the rows S
Orderings(S) ==
    { q \in [1..Cardinality(S) -> S] : \A i, j \in DOMAIN q : i # j => q[i] # q[j] }

\* .offset(skip).limit(limit) on the rows q
OffsetLimit(q, skip, limit) ==
    SubSeq(q, skip + 1, IF skip + limit < Len(q) THEN skip + limit ELSE Len(q))

Response(op, status, caller, args, body) ==
    [op |-> op, status |-> status, caller |-> caller, args |-> args, body |-> body]

(***************************************************************************)
(* Handlers, one step each (Spec)                                          *)
(***************************************************************************)
register(username, email, orcid_id) ==
    LET row == [id |-> NextUserId, username |-> username, email |-> email,
                orcid_id |-> orcid_id]
        args == [username |-> username, email |-> email]
    IN  /\ IF ExistingUser(username, email) # {}
           THEN /\ resp' = Response("register", 400, 0, args, <<>>)
                /\ UNCHANGED users
           ELSE IF UniqueViolation(row)
           THEN /\ resp' = Response("register", 500, 0, args, <<>>)
                /\ UNCHANGED users
           ELSE /\ users' = users \cup {row}
                /\ resp' = Response("register", 200, 0, args, <<row>>)
        /\ UNCHANGED <<sightings, lifeList, inflight, upstream, identified>>

get_current_user_profile(current_user) ==
    /\ resp' = Response("get_current_user_profile", 200, current_user.id,
                        <<>>, <<current_user>>)
    /\ UNCHANGED <<users, sightings, lifeList, inflight, upstream, identified>>

update_user_profile(current_user, email, orcid_id) ==
    LET e   == IF email # None THEN email ELSE current_user.email
        o   == IF orcid_id # None THEN orcid_id ELSE current_user.orcid_id
        row == [current_user EXCEPT !.email = e, !.orcid_id = o]
        args == [email |-> email, orcid_id |-> orcid_id]
    IN  /\ IF UniqueViolation(row)
           THEN /\ resp' = Response("update_user_profile", 500, current_user.id,
                                    args, <<>>)
                /\ UNCHANGED users
           ELSE /\ users' = (users \ {current_user}) \cup {row}
                /\ resp' = Response("update_user_profile", 200, current_user.id,
                                    args, <<row>>)
        /\ UNCHANGED <<sightings, lifeList, inflight, upstream, identified>>

create_sighting(current_user, sighting) ==
    \E id \in FreeSightingIds :
        LET row == [id |-> id, bird_name |-> sighting.bird_name,
                    scientific_name |-> sighting.scientific_name,
                    user_id |-> current_user.id]
        IN  /\ sightings' = sightings \cup {row}
            /\ lifeList' = lifeList \cup
                    {[id |-> id, owner |-> current_user.id, submitted |-> sighting]}
            /\ resp' = Response("create_sighting", 200, current_user.id,
                                sighting, <<row>>)
            /\ UNCHANGED <<users, inflight, upstream, identified>>

get_sightings(current_user, skip, limit) ==
    \E q \in Orderings(SightingsOfUser(current_user.id)) :
        /\ resp' = Response("get_sightings", 200, current_user.id,
                            [skip |-> skip, limit |-> limit],
                            OffsetLimit(q, skip, limit))
        /\ UNCHANGED <<users, sightings, lifeList, inflight, upstream, identified>>

get_sighting(sighting_id, current_user) ==
    LET found == SightingByIdAndOwner(sighting_id, current_user.id)
        args  == [sighting_id |-> sighting_id]
    IN  /\ IF found = {}
           THEN resp' = Response("get_sighting", 404, current_user.id, args, <<>>)
           ELSE \E s \in found :
                    resp' = Response("get_sighting", 200, current_user.id, args, <<s>>)
        /\ UNCHANGED <<users, sightings, lifeList, inflight, upstream, identified>>

delete_sighting(sighting_id, current_user) ==
    LET found == SightingByIdAndOwner(sighting_id, current_user.id)
        args  == [sighting_id |-> sighting_id]
    IN  /\ IF found = {}
           THEN /\ resp' = Response("delete_sighting", 404, current_user.id, args, <<>>)
                /\ UNCHANGED <<sightings, lifeList>>
           ELSE \E s \in found :
                    /\ sightings' = sightings \ {s}
                    /\ lifeList' = { r \in lifeList : r.id # sighting_id }
                    /\ resp' = Response("delete_sighting", 200, current_user.id,
                                        args, <<>>)
        /\ UNCHANGED <<users, inflight, upstream, identified>>

(***************************************************************************)
(* Initial state and the sequential specification                          *)
(***************************************************************************)
IdleWorker == [pc |-> "idle", username |-> None, email |-> None, status |-> 0]

Init ==
    /\ users = {}
    /\ sightings = {}
    /\ lifeList = {}
    /\ resp = Response("none", 0, 0, <<>>, <<>>)
    /\ inflight = [w \in Workers |-> IdleWorker]
    /\ upstream = [kind |-> "none"]
    /\ identified = [pc |-> "idle"]

Register ==
    \E username \in Usernames, email \in Emails, orcid_id \in Orcids :
        register(username, email, orcid_id)

GetCurrentUserProfile ==
    \E current_user \in users : get_current_user_profile(current_user)

UpdateUserProfile ==
    \E current_user \in users, email \in Emails \cup {None}, orcid_id \in Orcids :
        update_user_profile(current_user, email, orcid_id)

CreateSighting ==
    \E current_user \in users, sighting \in SightingInputs :
        create_sighting(current_user, sighting)

GetSightings ==
    \E current_user \in users, skip \in Skips, limit \in Limits :
        get_sightings(current_user, skip, limit)

GetSighting ==
    \E current_user \in users, sighting_id \in SightingIds :
        get_sighting(sighting_id, current_user)

DeleteSighting ==
    \E current_user \in users, sighting_id \in SightingIds :
        delete_sighting(sighting_id, current_user)

Next ==
    \/ Register
    \/ GetCurrentUserProfile
    \/ UpdateUserProfile
    \/ CreateSighting
    \/ GetSightings
    \/ GetSighting
    \/ DeleteSighting

Spec == Init /\ [][Next]_vars

(***************************************************************************)
(* POST /auth/register, several requests in flight (SpecConc).  Each       *)
(* request has its own session: the existence query and the commit are     *)
(* separate statements with no lock between them, so the requests of       *)
(* separate worker processes interleave there.                             *)
(***************************************************************************)
\* a request arrives with a valid UserCreate body
register_begin(w, username, email) ==
    /\ inflight[w].pc \in {"idle", "done"}
    /\ inflight' = [inflight EXCEPT ![w] =
                        [pc |-> "query", username |-> username, email |-> email,
                         status |-> 0]]
    /\ UNCHANGED <<users, sightings, lifeList, resp, upstream, identified>>

\* main.py 80-87: the existence query, and the 400 when it finds a row
register_query(w) ==
    /\ inflight[w].pc = "query"
    /\ IF ExistingUser(inflight[w].username, inflight[w].email) # {}
       THEN inflight' = [inflight EXCEPT ![w].pc = "done", ![w].status = 400]
       ELSE inflight' = [inflight EXCEPT ![w].pc = "commit"]
    /\ UNCHANGED <<users, sightings, lifeList, resp, upstream, identified>>

\* main.py 89-98: add, commit, refresh; commit raises IntegrityError when the
\* unique constraints reject the row, and nothing catches it
register_commit(w) ==
    LET row == [id |-> NextUserId, username |-> inflight[w].username,
                email |-> inflight[w].email, orcid_id |-> None]
    IN  /\ inflight[w].pc = "commit"
        /\ IF UniqueViolation(row)
           THEN /\ inflight' = [inflight EXCEPT ![w].pc = "done", ![w].status = 500]
                /\ UNCHANGED users
           ELSE /\ users' = users \cup {row}
                /\ inflight' = [inflight EXCEPT ![w].pc = "done", ![w].status = 200]
        /\ UNCHANGED <<sightings, lifeList, resp, upstream, identified>>

RegisterBegin ==
    \E w \in Workers, username \in Usernames, email \in Emails :
        register_begin(w, username, email)

RegisterQuery == \E w \in Workers : register_query(w)

RegisterCommit == \E w \in Workers : register_commit(w)

NextConc ==
    \/ RegisterBegin
    \/ RegisterQuery
    \/ RegisterCommit

SpecConc == Init /\ [][NextConc]_vars

(***************************************************************************)
(* app/bird_identifier.py.  A reply of the external model is a sequence    *)
(* of chunks of text, read as their concatenation: a fence, the word       *)
(* json, a newline, one of several JSON documents, a JSON document cut     *)
(* short, a sentence of prose.                                             *)
(***************************************************************************)
WESLEYAN_FIELD_GUIDE_BIRDS ==
    { "Northern Cardinal", "American Robin", "Blue Jay", "House Sparrow",
      "European Starling", "American Crow", "Mourning Dove", "Red-tailed Hawk",
      "American Goldfinch", "Black-capped Chickadee", "White-breasted Nuthatch",
      "Downy Woodpecker", "Carolina Wren", "Eastern Bluebird", "Song Sparrow",
      "Dark-eyed Junco" }

FiveFields ==
    { "common_name", "scientific_name", "wesleyan_fact", "confidence",
      "in_wesleyan_field_guide" }

UnableToIdentify == "Unable to identify the bird in this image. Try a clearer photo!"
CouldNotParse == "Could not parse the identification result. Please try again."

\* a Python dict with the five keys
Dict5(common_name, scientific_name, wesleyan_fact, confidence, flag) ==
    [type |-> "dict",
     items |-> [common_name |-> common_name, scientific_name |-> scientific_name,
                wesleyan_fact |-> wesleyan_fact, confidence |-> confidence,
                in_wesleyan_field_guide |-> flag]]

\* bird_identifier.py 92-98
ParseFailureShape == Dict5("Unknown", "Unknown", CouldNotParse, "none", FALSE)

\* the three-backtick fence marker
Fence == "<fence>"
JsonTag == "json"
\* a language tag that is not json, as in a fence opened for another language
OtherTag == "javascript"
Newline == "\n"
Whitespace == { Newline }

\* the chunks that are complete JSON documents, and the value each decodes to
JsonDocuments ==
    [ cardinal   |-> Dict5("Northern Cardinal", "Cardinalis cardinalis",
                           "The Cardinal is the Wesleyan mascot.", "high", TRUE),
      pigeon     |-> Dict5("Pigeon", "Columba livia",
                           "Pigeons roost on Olin Library.", "medium", FALSE),
      pigeonFlag |-> Dict5("Pigeon", "Columba livia",
                           "Pigeons roost on Olin Library.", "medium", TRUE),
      unknown    |-> Dict5("Unknown", "Unknown", UnableToIdentify, "none", FALSE),
      emptyObj   |-> [type |-> "dict", items |-> <<>>],
      emptyList  |-> [type |-> "list", items |-> <<>>],
      number     |-> [type |-> "int", digits |-> 1] ]

\* a JSON object cut off before its closing brace, and a sentence of prose
Truncated == "truncated"
Prose == "prose"

Chunks == {Fence, JsonTag, OtherTag, Newline, Truncated, Prose} \cup DOMAIN JsonDocuments

Replies == UNION { [1..n -> Chunks] : n \in 0..MaxReplyLen }

\* what client.models.generate_content(...) comes to: a reply with text, a
\* reply without text (response.text is None), or an exception
UpstreamOutcomes ==
    { [kind |-> "text", text |-> t] : t \in Replies }
        \cup { [kind |-> "no_text"], [kind |-> "error"] }

\* str.strip()
RECURSIVE LStrip(_)
LStrip(t) == IF t # <<>> /\ Head(t) \in Whitespace THEN LStrip(Tail(t)) ELSE t

RECURSIVE RStrip(_)
RStrip(t) ==
    IF t # <<>> /\ t[Len(t)] \in Whitespace THEN RStrip(SubSeq(t, 1, Len(t) - 1)) ELSE t

Strip(t) == RStrip(LStrip(t))

StartsWith(t, prefix) ==
    Len(t) >= Len(prefix) /\ SubSeq(t, 1, Len(prefix)) = prefix

EndsWith(t, suffix) ==
    Len(t) >= Len(suffix) /\ SubSeq(t, Len(t) - Len(suffix) + 1, Len(t)) = suffix

Drop(t, n) == SubSeq(t, n + 1, Len(t))

\* json.loads of the concatenation of the chunks t, already stripped: one
\* document decodes to its value, digits next to digits are one longer
\* number, and every other text raises JSONDecodeError
json_loads(t) ==
    IF Len(t) = 1 /\ t[1] \in DOMAIN JsonDocuments
    THEN [ok |-> TRUE, value |-> JsonDocuments[t[1]]]
    ELSE IF Len(t) > 1 /\ \A i \in DOMAIN t : t[i] = "number"
    THEN [ok |-> TRUE, value |-> [type |-> "int", digits |-> Len(t)]]
    ELSE [ok |-> FALSE]

\* fault: response_text[3:] where the code has [7:]
AfterJsonFenceKeepsTag(t) == IF StartsWith(t, <<Fence, JsonTag>>) THEN Drop(t, 1) ELSE t

\* bird_identifier.py 80-86
AfterJsonFence(t) == IF StartsWith(t, <<Fence, JsonTag>>) THEN Drop(t, 2) ELSE t
AfterFence(t) == IF StartsWith(t, <<Fence>>) THEN Drop(t, 1) ELSE t
AfterTrailingFence(t) ==
    IF EndsWith(t, <<Fence>>) THEN SubSeq(t, 1, Len(t) - 1) ELSE t

StripFences(text) == AfterTrailingFence(AfterFence(AfterJsonFence(Strip(text))))

\* fault: json.loads outside any try
ParseCatchNothing(text) ==
    LET parsed == json_loads(Strip(StripFences(text)))
    IN  IF parsed.ok THEN [kind |-> "return", value |-> parsed.value]
        ELSE [kind |-> "raise", exc |-> "JSONDecodeError"]

\* bird_identifier.py 88-100: json.loads in try/except JSONDecodeError
ParseReply(text) ==
    LET parsed == json_loads(Strip(StripFences(text)))
    IN  [kind |-> "return",
         value |-> IF parsed.ok THEN parsed.value ELSE ParseFailureShape]

\* fault: the whole body in one broad try/except
identify_bird_catch_all(outcome) ==
    IF outcome.kind = "text" THEN ParseReply(outcome.text)
    ELSE [kind |-> "return", value |-> ParseFailureShape]

\* bird_identifier.py 36-100: the call is outside the try, and so is
\* response.text.strip()
identify_bird(outcome) ==
    IF outcome.kind = "error" THEN [kind |-> "raise", exc |-> "APIError"]
    ELSE IF outcome.kind = "no_text" THEN [kind |-> "raise", exc |-> "AttributeError"]
    ELSE ParseReply(outcome.text)

\* BirdIdentificationResponse(**result): result must be a mapping that holds
\* the five required fields
ConformsToSchema(value) ==
    value.type = "dict" /\ FiveFields \subseteq DOMAIN value.items

\* main.py 153-177; an exception no handler catches is answered 500
identify_bird_endpoint(content_type, outcome) ==
    /\ identified.pc = "idle"
    /\ upstream = outcome
    /\ IF content_type # "image"
       THEN identified' = [pc |-> "done", called |-> FALSE, status |-> 400]
       ELSE LET result == identify_bird(outcome)
            IN  IF result.kind = "return" /\ ConformsToSchema(result.value)
                THEN identified' = [pc |-> "done", called |-> TRUE, result |-> result,
                                    status |-> 200, body |-> result.value.items]
                ELSE identified' = [pc |-> "done", called |-> TRUE, result |-> result,
                                    status |-> 500]
    /\ UNCHANGED <<users, sightings, lifeList, resp, inflight, upstream>>

InitIdentify ==
    /\ users = {}
    /\ sightings = {}
    /\ lifeList = {}
    /\ resp = Response("none", 0, 0, <<>>, <<>>)
    /\ inflight = [w \in Workers |-> IdleWorker]
    /\ upstream \in UpstreamOutcomes
    /\ identified = [pc |-> "idle"]

IdentifyBirdEndpoint ==
    \E content_type \in {"image", "text"} :
        identify_bird_endpoint(content_type, upstream)

NextIdentify == IdentifyBirdEndpoint

SpecIdentify == InitIdentify /\ [][NextIdentify]_vars

(***************************************************************************)
(* Properties                                                              *)
(***************************************************************************)
\* C1: a GET or DELETE /sightings/{id} by an account that does not own the
\* stored sighting with that id is answered 404, carries none of its data,
\* and leaves the sightings table as it was.
C1_CrossAccountNotFound ==
    [][ ( /\ resp'.op \in {"get_sighting", "delete_sighting"}
          /\ \E s \in sightings :
                 s.id = resp'.args.sighting_id /\ s.user_id # resp'.caller )
        => ( /\ resp'.status = 404
             /\ resp'.body = <<>>
             /\ sightings' = sightings ) ]_vars

\* C1 witness: a DELETE by another account than the owner was answered 404
\* and the sighting is still stored.
C1_Witness ==
    /\ resp.op = "delete_sighting"
    /\ resp.status = 404
    /\ \E s \in sightings : s.id = resp.args.sighting_id /\ s.user_id # resp.caller

\* C6: POST /auth/register with a username or an email some account holds is
\* answered 400 and leaves the accounts unchanged; with both unused it adds
\* exactly one account, which carries them.
C6_RegisterRejectsDuplicates ==
    [][ resp'.op = "register"
        => IF \E u \in users : u.username = resp'.args.username
                                  \/ u.email = resp'.args.email
           THEN resp'.status = 400 /\ users' = users
           ELSE /\ resp'.status = 200
                /\ users \subseteq users'
                /\ Cardinality(users') = Cardinality(users) + 1
                /\ \E u \in users' \ users :
                       u.username = resp'.args.username /\ u.email = resp'.args.email
      ]_vars

\* C6 witness: a registration with a fresh username and a taken email was
\* answered 400.
C6_Witness ==
    /\ resp.op = "register"
    /\ resp.status = 400
    /\ \E u \in users : u.email = resp.args.email
    /\ \A u \in users : u.username # resp.args.username

MineInLifeList == { e \in lifeList : e.owner = resp.caller }

AsPosted(row) ==
    [id |-> row.id, owner |-> row.user_id,
     submitted |-> [bird_name |-> row.bird_name,
                    scientific_name |-> row.scientific_name]]

\* C7: GET /sightings with skip = 0 and a limit not below the caller's
\* sighting count returns exactly the sightings the caller posted and has not
\* deleted, each once, with the fields submitted and the caller as user_id.
C7_ListIsOwnLifeList ==
    ( /\ resp.op = "get_sightings"
      /\ resp.args.skip = 0
      /\ resp.args.limit >= Cardinality(MineInLifeList) )
    => ( /\ Len(resp.body) = Cardinality(MineInLifeList)
         /\ { AsPosted(resp.body[i]) : i \in DOMAIN resp.body } = MineInLifeList
         /\ \A i \in DOMAIN resp.body : resp.body[i].user_id = resp.caller )

\* C7 witness: such a listing returned the caller's one sighting while
\* another account has a sighting stored.
C7_Witness ==
    /\ resp.op = "get_sightings"
    /\ resp.args.skip = 0
    /\ resp.args.limit >= Cardinality(MineInLifeList)
    /\ Len(resp.body) = 1
    /\ \E s \in sightings : s.user_id # resp.caller

UniqueAccounts ==
    \A u, v \in users :
        u # v => u.id # v.id /\ u.username # v.username /\ u.email # v.email

\* C8, as claimed: no two accounts share a username or an email, and PUT
\* /users/me with an email another account holds is answered with a client
\* error.
C8_AsClaimed ==
    /\ UniqueAccounts
    /\ ( /\ resp.op = "update_user_profile"
         /\ \E u \in users : u.id # resp.caller /\ u.email = resp.args.email )
       => resp.status \in 400..499

\* C9, as claimed: of two register requests with the same username or the
\* same email, however their steps interleave, at most one creates an
\* account and each is answered 200 or 400.
C9_AsClaimed ==
    \A w1, w2 \in Workers :
        ( /\ w1 # w2
          /\ inflight[w1].pc = "done"
          /\ inflight[w2].pc = "done"
          /\ \/ inflight[w1].username = inflight[w2].username
             \/ inflight[w1].email = inflight[w2].email )
        => ( /\ ~ (inflight[w1].status = 200 /\ inflight[w2].status = 200)
             /\ inflight[w1].status \in {200, 400}
             /\ inflight[w2].status \in {200, 400} )

Answered == identified.pc = "done" /\ identified.called

AnsweredText == Answered /\ upstream.kind = "text"

\* C2, as claimed: for every textual reply identify_bird returns, and what
\* it returns is an object with exactly the five fields.
C2_AsClaimed ==
    AnsweredText
    => ( /\ identified.result.kind = "return"
         /\ identified.result.value.type = "dict"
         /\ DOMAIN identified.result.value.items = FiveFields )

NoDocumentChunk(t) == \A i \in DOMAIN t : t[i] \notin DOMAIN JsonDocuments

AllWhitespace(t, a, b) == \A k \in a..b : t[k] \in Whitespace

\* t is whitespace, a fence, a tag of Tags or none, whitespace, the document
\* d, whitespace, a fence or none, whitespace
IsFenced(t, d, Tags) ==
    \E i \in DOMAIN t :
        /\ t[i] = d
        /\ \E j \in 1..(i - 1) :
               /\ AllWhitespace(t, 1, j - 1)
               /\ t[j] = Fence
               /\ \/ AllWhitespace(t, j + 1, i - 1)
                  \/ j + 1 < i /\ t[j + 1] \in Tags /\ AllWhitespace(t, j + 2, i - 1)
        /\ \/ AllWhitespace(t, i + 1, Len(t))
           \/ \E j \in (i + 1)..Len(t) :
                  /\ t[j] = Fence
                  /\ AllWhitespace(t, i + 1, j - 1)
                  /\ AllWhitespace(t, j + 1, Len(t))

\* t is the document d alone, with whitespace around it
IsBare(t, d) ==
    \E i \in DOMAIN t :
        t[i] = d /\ AllWhitespace(t, 1, i - 1) /\ AllWhitespace(t, i + 1, Len(t))

SameAsUnwrapped(d) ==
    /\ identified.result = identify_bird([kind |-> "text", text |-> <<d>>])
    /\ identified.result.value = JsonDocuments[d]
    /\ Strip(StripFences(upstream.text)) = <<d>>

\* C4, as claimed: a document in a fence with any language tag or none is
\* answered like the document alone, and nothing is removed from a reply
\* that does not begin with a fence.
C4_AsClaimed ==
    AnsweredText
    => ( /\ \A d \in DOMAIN JsonDocuments :
                IsFenced(upstream.text, d, {JsonTag, OtherTag}) => SameAsUnwrapped(d)
         /\ ~ StartsWith(Strip(upstream.text), <<Fence>>)
                => StripFences(upstream.text) = Strip(upstream.text) )

\* C4, amended: a document in a fence that is bare or tagged json, with or
\* without a closing fence and with any whitespace around the parts, is
\* answered like the document alone, the opening fence and the closing fence
\* being what is removed; nothing is removed from the document alone; and a
\* closing fence is removed from every reply that ends with one, also when
\* the reply does not begin with a fence.
C4_FencedSameAsUnwrapped ==
    AnsweredText
    => ( /\ \A d \in DOMAIN JsonDocuments :
                /\ IsFenced(upstream.text, d, {JsonTag}) => SameAsUnwrapped(d)
                /\ IsBare(upstream.text, d) => StripFences(upstream.text) = <<d>>
         /\ ( /\ ~ StartsWith(Strip(upstream.text), <<Fence>>)
              /\ EndsWith(Strip(upstream.text), <<Fence>>) )
            => StripFences(upstream.text)
                   = SubSeq(Strip(upstream.text), 1, Len(Strip(upstream.text)) - 1) )

\* C4 witness: a document between a json fence and a closing fence was
\* answered 200 with the fields of the document.
C4_Witness ==
    /\ AnsweredText
    /\ upstream.text = <<Fence, JsonTag, "cardinal", Fence>>
    /\ identified.status = 200
    /\ identified.body = JsonDocuments["cardinal"].items

\* C5, as claimed: in every result with the five fields the flag
\* in_wesleyan_field_guide is true exactly when common_name is one of the
\* 16 names, whatever the reply was.
C5_AsClaimed ==
    ( /\ Answered
      /\ identified.result.kind = "return"
      /\ ConformsToSchema(identified.result.value) )
    => ( identified.result.value.items.in_wesleyan_field_guide
             <=> identified.result.value.items.common_name
                     \in WESLEYAN_FIELD_GUIDE_BIRDS )

\* C10: when the call to the external model fails, identify_bird raises and
\* POST /identify is answered 500; the could-not-parse failure shape is
\* returned only for a textual reply that json.loads rejects.
C10_TransportFailurePropagates ==
    Answered
    => ( /\ upstream.kind = "error"
            => identified.result.kind = "raise" /\ identified.status = 500
         /\ ( /\ identified.result.kind = "return"
              /\ identified.result.value = ParseFailureShape )
            => ( /\ upstream.kind = "text"
                 /\ ~ json_loads(Strip(StripFences(upstream.text))).ok ) )

\* C10 witness: the call failed and the request was answered 500.
C10_Witness ==
    /\ Answered
    /\ upstream.kind = "error"
    /\ identified.status = 500

====
